---- MODULE Spec2Model ----
(***************************************************************************)
(* hass-rs: the HassClient facade (src/src/client.rs) driven by a caller,  *)
(* the two forwarding tasks that connect it to the WebSocket               *)
(* (src/src/runtime.rs, the same code as in src/examples/call_service.rs), *)
(* and the gateway as the environment.                                     *)
(*                                                                         *)
(*   caller -> HassClient -> to_gateway -> ws_outgoing_messages -> sink    *)
(*   gateway -> stream -> ws_incoming_messages -> from_gateway -> client   *)
(***************************************************************************)
EXTENDS Integers, Sequences, FiniteSets, TLC

\* ------------------------------------------------------------------ bounds
\* facade calls one behaviour starts
MaxCalls == 3
\* inbound items the gateway has sent and the client has not yet received
MaxInFlight == 1
\* frames still on to_gateway (not yet taken by the writer) when a call starts
MaxQueued == 0

\* ------------------------------------------------------- program constants
\* capacity of both mpsc channels
ChannelCap == 20
\* u64::MAX, where AtomicU64::fetch_add wraps to 0; scaled to the largest
\* integer TLC represents (the value is 2^64 - 1)
U64_MAX == 2147483647
\* Option::None of a Command's id (the auth frame carries no id at all)
None == -1

\* ------------------------------------------------------------- the inputs
FrameIds == {1, 2}
AuthMessages == {"bad token", "expired"}
ErrorPairs == { [code |-> "not_found", message |-> "m1"],
                [code |-> "unknown_error", message |-> "m2"] }
NoError == [code |-> "", message |-> ""]
EventNames == {"state_changed"}
Handles == FrameIds

\* One JSON text frame as the gateway writes it; result names the shape of the
\* "result" payload ("" when the key is absent).
Json(type, id, success, result, error, message) ==
    [type |-> type, id |-> id, success |-> success, result |-> result,
     error |-> error, message |-> message]

JsonPlain(type, id) == Json(type, id, FALSE, "", NoError, "")

GatewayTexts ==
    { JsonPlain("auth_required", None), JsonPlain("auth_ok", None) }
    \cup { Json("auth_invalid", None, FALSE, "", NoError, m) : m \in AuthMessages }
    \cup { Json("result", i, TRUE, "config", NoError, "") : i \in FrameIds }
    \cup { Json("result", 1, TRUE, "", NoError, "") }
    \cup { Json("result", i, FALSE, "", e, "") : i \in {1}, e \in ErrorPairs }
    \cup { JsonPlain("pong", i) : i \in {1} }
    \cup { JsonPlain("event", i) : i \in {1} }
    \cup { JsonPlain("not_a_response", None) }

\* tungstenite::Error values the stream can yield
TransportErrors == {"ConnectionClosed", "Io"}

\* Result<TungsteniteMessage, Error> as the stream yields it
TextItem(j) == [tag |-> "Text", data |-> j, err |-> ""]
BinaryItem == [tag |-> "Binary", data |-> JsonPlain("", None), err |-> ""]
ErrItem(e) == [tag |-> "Err", data |-> JsonPlain("", None), err |-> e]
NoItem == [tag |-> "", data |-> JsonPlain("", None), err |-> ""]

GatewayItems == { TextItem(j) : j \in GatewayTexts } \cup { BinaryItem }

\* ------------------------------------------------- types::Response (serde)
\* The variants of the internally tagged enum Response, by their "type" tag.
ResponseTag(type) ==
    CASE type = "auth_required" -> "AuthRequired"
      [] type = "auth_ok"       -> "AuthOk"
      [] type = "auth_invalid"  -> "AuthInvalid"
      [] type = "result"        -> "Result"
      [] type = "pong"          -> "Pong"
      [] type = "event"         -> "Event"
      [] OTHER                  -> ""

NoResponse ==
    [tag |-> "", msg_type |-> "", id |-> None, success |-> FALSE, result |-> "",
     error |-> NoError, message |-> ""]

\* serde_json::from_str::<Response>: no variant for an unknown "type" tag
from_str(j) ==
    IF ResponseTag(j.type) = ""
    THEN [ok |-> FALSE, resp |-> NoResponse]
    ELSE [ok |-> TRUE,
          resp |-> [tag |-> ResponseTag(j.type), msg_type |-> j.type, id |-> j.id,
                    success |-> j.success, result |-> j.result, error |-> j.error,
                    message |-> j.message]]

\* ------------------------------------------------------ errors::HassError
HassError(kind, detail, data) == [kind |-> kind, detail |-> detail, data |-> data]
NoHassError == HassError("", "", NoResponse)

\* impl From<&tungstenite::error::Error> for HassError
FromTungsteniteRef(e) ==
    IF e \in {"ConnectionClosed", "AlreadyClosed"}
    THEN HassError("TungsteniteError", e, NoResponse)
    ELSE HassError("Generic", "Error from ws", NoResponse)

\* HassResult<Response>
OkResponse(r) == [ok |-> TRUE, resp |-> r, err |-> NoHassError]
ErrResponse(e) == [ok |-> FALSE, resp |-> NoResponse, err |-> e]

\* HassClient::ws_receive on what from_gateway.recv() returned, as built with
\* the feature use-tokio (the one runtime.rs and the example compile with);
\* item = NoItem stands for a closed channel.
ws_receive(item) ==
    IF item = NoItem
    THEN ErrResponse(HassError("UnknownPayloadReceived", "", NoResponse))
    ELSE IF item.tag = "Text"
    THEN IF from_str(item.data).ok
         THEN OkResponse(from_str(item.data).resp)
         ELSE ErrResponse(HassError("UnableToDeserialize", "", NoResponse))
    ELSE IF item.tag = "Err"
    THEN ErrResponse(FromTungsteniteRef(item.err))
    ELSE ErrResponse(HassError("UnknownPayloadReceived", "", NoResponse))

\* ---------------------------------------------------------- get_last_seq
\* a load where the code has fetch_add: the counter is read and not advanced
get_last_seq_load(counter) ==
    [ret |-> IF counter = 0 THEN None ELSE counter, counter |-> counter]

\* add_fetch where the code has fetch_add: the value after the addition is used
get_last_seq_new_value(counter) ==
    LET next == IF counter = U64_MAX THEN 0 ELSE counter + 1 IN
    [ret |-> IF next = 0 THEN None ELSE next, counter |-> next]

\* fetch_add(1) returns the previous value and wraps; 0 reads as None
get_last_seq(counter) ==
    [ret |-> IF counter = 0 THEN None ELSE counter,
     counter |-> IF counter = U64_MAX THEN 0 ELSE counter + 1]

\* --------------------------------------------------------- types::Command
Command(msg_type, id, subscription, event_type) ==
    [msg_type |-> msg_type, id |-> id, subscription |-> subscription,
     event_type |-> event_type]

\* Command::to_tungstenite_message: the JSON text frame of section 6
to_tungstenite_message(cmd) ==
    [type |-> cmd.msg_type, id |-> cmd.id, subscription |-> cmd.subscription,
     event_type |-> cmd.event_type]

\* tokio mpsc Sender::send on a channel made with channel(20): the send
\* completes only while the channel holds fewer messages than its capacity
send_permit_unbounded(queue) == TRUE

send_permit(queue) == Len(queue) < ChannelCap

\* the newest message taken where the code takes the oldest
recv_latest(queue) ==
    [item |-> queue[Len(queue)], rest |-> SubSeq(queue, 1, Len(queue) - 1)]

\* tokio mpsc Receiver::recv on a channel that is not empty: the oldest message
recv(queue) == [item |-> Head(queue), rest |-> Tail(queue)]

\* a channel that keeps nothing for a receiver that is not yet waiting
to_user_send_not_kept(queue, message) == queue

\* to_user.send(message).await on a channel with room: the message is kept
\* behind those the receiver has not taken yet
to_user_send(queue, message) == Append(queue, message)

\* no frame written yet
NoFrame == to_tungstenite_message(Command("", None, 0, ""))

\* ---------------------------------------------- HassResult<T> of a facade call
Ok(detail, data) == [kind |-> "Ok", detail |-> detail, data |-> data]
Err(e) == e
Panic(detail) == [kind |-> "Panic", detail |-> detail, data |-> NoResponse]
NoOutcome == [kind |-> "", detail |-> "", data |-> NoResponse]
\* the future of the call was dropped before it completed
Abandoned == [kind |-> "Abandoned", detail |-> "", data |-> NoResponse]
UnknownPayloadReceived == HassError("UnknownPayloadReceived", "", NoResponse)

\* serde_json::from_value::<T>(data.result.expect(..))? for the payload of a
\* result: panics on an absent payload, fails on a payload of another shape
from_value(shape, data, what) ==
    IF data.result = "" THEN Panic(what)
    ELSE IF data.result = shape THEN Ok(shape, data)
    ELSE HassError("UnableToDeserialize", "", NoResponse)

\* auth_invalid handled by the catch-all arm
auth_with_longlivedtoken_result_no_invalid(r) ==
    IF ~r.ok THEN Err(r.err)
    ELSE IF r.resp.tag = "AuthOk" THEN Ok("", NoResponse)
    ELSE UnknownPayloadReceived

\* The tail of each facade operation: r is what self.command(..).await returned.
auth_with_longlivedtoken_result(r) ==
    IF ~r.ok THEN Err(r.err)
    ELSE IF r.resp.tag = "AuthOk" THEN Ok("", NoResponse)
    ELSE IF r.resp.tag = "AuthInvalid"
    THEN HassError("AuthenticationFailed", r.resp.message, NoResponse)
    ELSE UnknownPayloadReceived

ping_result(r) ==
    IF ~r.ok THEN Err(r.err)
    ELSE IF r.resp.tag = "Pong" THEN Ok("pong", NoResponse)
    ELSE IF r.resp.tag = "Result" THEN HassError("ReponseError", "", r.resp)
    ELSE UnknownPayloadReceived

\* get_config, get_states, get_services, get_panels and the three registries
get_result(shape, r) ==
    IF ~r.ok THEN Err(r.err)
    ELSE IF r.resp.tag = "Result"
    THEN IF r.resp.success
         THEN from_value(shape, r.resp, "Expecting to get the payload")
         ELSE HassError("ReponseError", "", r.resp)
    ELSE UnknownPayloadReceived

get_config_result(r) == get_result("config", r)
get_area_registry_result(r) == get_result("areas", r)
get_device_registry_result(r) == get_result("devices", r)
get_entity_registry_result(r) == get_result("entities", r)
get_states_result(r) == get_result("states", r)
get_services_result(r) == get_result("services", r)
get_panels_result(r) == get_result("panels", r)

\* the success flag of the result not looked at
call_service_result_any_result(r) ==
    IF ~r.ok THEN Err(r.err)
    ELSE IF r.resp.tag = "Result"
    THEN Ok("command executed successfully", NoResponse)
    ELSE UnknownPayloadReceived

call_service_result(r) ==
    IF ~r.ok THEN Err(r.err)
    ELSE IF r.resp.tag = "Result"
    THEN IF r.resp.success
         THEN Ok("command executed successfully", NoResponse)
         ELSE HassError("ReponseError", "", r.resp)
    ELSE UnknownPayloadReceived

\* the insert done before the success flag is looked at
subscribe_event_result_insert_first(r, subs, event_name) ==
    IF ~r.ok THEN [out |-> Panic("unwrap"), subs |-> subs]
    ELSE IF r.resp.tag = "Result"
    THEN [out |-> IF r.resp.success THEN Ok("", r.resp)
                  ELSE HassError("ReponseError", "", r.resp),
          subs |-> [k \in DOMAIN subs \cup {r.resp.id} |->
                       IF k = r.resp.id THEN event_name ELSE subs[k]]]
    ELSE [out |-> UnknownPayloadReceived, subs |-> subs]

\* subscribe_event: the second component is the Subscription Table afterwards
subscribe_event_result(r, subs, event_name) ==
    IF ~r.ok THEN [out |-> Panic("unwrap"), subs |-> subs]
    ELSE IF r.resp.tag = "Result" /\ r.resp.success
    THEN [out |-> Ok("", r.resp),
          subs |-> [k \in DOMAIN subs \cup {r.resp.id} |->
                       IF k = r.resp.id THEN event_name ELSE subs[k]]]
    ELSE IF r.resp.tag = "Result" /\ ~r.resp.success
    THEN [out |-> HassError("ReponseError", "", r.resp), subs |-> subs]
    ELSE [out |-> UnknownPayloadReceived, subs |-> subs]

unsubscribe_event_result(r, subs, subscription_id) ==
    IF ~r.ok THEN [out |-> Panic("unwrap"), subs |-> subs]
    ELSE IF r.resp.tag = "Result" /\ r.resp.success
    THEN IF subscription_id \in DOMAIN subs
         THEN [out |-> Ok("Ok", NoResponse),
               subs |-> [k \in DOMAIN subs \ {subscription_id} |-> subs[k]]]
         ELSE [out |-> HassError("Generic", "Wrong subscription ID", NoResponse),
               subs |-> subs]
    ELSE IF r.resp.tag = "Result" /\ ~r.resp.success
    THEN [out |-> HassError("ReponseError", "", r.resp), subs |-> subs]
    ELSE [out |-> UnknownPayloadReceived, subs |-> subs]

\* ------------------------------------------------------------------ state
VARIABLES
    last_sequence,  \* HassClient.last_sequence
    subscriptions,  \* HassClient.subscriptions
    to_gateway,     \* channel HassClient -> ws_outgoing_messages
    from_gateway,   \* channel ws_incoming_messages -> HassClient
    stream,         \* inbound half of the WebSocket: items not yet read
    transport,      \* "open", "closed" (end of stream) or "failed"
    sink,           \* how many frames went out on the outbound half of the WebSocket
    writer,         \* ws_outgoing_messages: "running" or "panicked"
    pc,             \* the caller's position in the facade
    cur,            \* the facade call in progress
    last,           \* the facade call that has just returned, until the next starts
    issued,         \* history: what get_last_seq returned, in order
    handshake,      \* history: the state of the authentication handshake
    ncalls,         \* facade calls started
    conn,           \* the WsConn that WsConn::connect returned: "held", "dropped"
    sender_task,    \* the task sender_loop spawned: "running" or "stopped"
    receiver_task,  \* the task receiver_loop spawned: "running" or "panicked"
    event_listeners,\* WsConn.event_listeners: the keys of the map
    called,         \* history: the event ids the registered closures were called with
    stream_ended,   \* history: receiver_loop has read the end of the stream or an error
    nframes,        \* items the gateway has put on the stream of a WsConn
    wire            \* the frame sender_loop wrote last

\* the state of HassClient and of the tasks of runtime.rs alone
clientvars == << subscriptions, writer, pc, cur, last, handshake, ncalls >>

\* the state of WsConn and of the tasks of wsconn.rs alone
wsvars == << conn, sender_task, receiver_task, event_listeners, called,
             stream_ended, nframes, wire >>

vars == << last_sequence, subscriptions, to_gateway, from_gateway,
           stream, transport, sink, writer, pc, cur, last,
           issued, handshake, ncalls, conn, sender_task, receiver_task,
           event_listeners, called, stream_ended, nframes, wire >>


\* ------------------------------------------------------------ facade calls
\* the facade operations that send a request with an id
RequestOps ==
    {"ping", "get_config", "get_area_registry", "get_device_registry",
     "get_entity_registry", "get_states", "get_services", "get_panels",
     "call_service", "subscribe_event", "unsubscribe_event"}

\* What the model remembers of one facade call.
\*   first      the item the handshake's first ws_receive took
\*   got        the item command's ws_receive took
\*   enq        frames the call has put on to_gateway
\*   subs0      the Subscription Table when the call started
\*   follows    the call is an unsubscribe of the handle that the call right
\*              before it, a successful subscribe, returned
\*   subs00     the Subscription Table before that subscribe
\*   before     of the call right before it, when that call ended with the
\*              answer to its command still to come from a gateway that
\*              answers every command once (the call was abandoned, or it
\*              was given an event of a live subscription in its place):
\*              the id of its command, whether that was a subscribe
\*              command, and whether the call was abandoned
NoBefore == [id |-> None, subscribe |-> FALSE, abandoned |-> FALSE]

Before(c) ==
    IF c.out = Abandoned
       \/ ( /\ c.got.tag = "Text" /\ c.got.data.type = "event"
            /\ c.got.data.id \in DOMAIN c.subs0 /\ c.id > 0 )
    THEN [id |-> c.id, subscribe |-> c.op = "subscribe_event",
          abandoned |-> c.out = Abandoned]
    ELSE NoBefore

Call(op, id, subscription, event_type, follows, subs00) ==
    [op |-> op, id |-> id, subscription |-> subscription,
     event_type |-> event_type, first |-> NoItem, got |-> NoItem, enq |-> 0,
     subs0 |-> subscriptions, follows |-> follows, subs00 |-> subs00,
     before |-> Before(last), out |-> NoOutcome]

NoCall ==
    [op |-> "", id |-> None, subscription |-> 0, event_type |-> "",
     first |-> NoItem, got |-> NoItem, enq |-> 0, subs0 |-> << >>,
     follows |-> FALSE, subs00 |-> << >>, before |-> NoBefore,
     out |-> NoOutcome]

\* The command each operation builds
CommandOf(c) ==
    Command(CASE c.op = "auth_with_longlivedtoken" -> "auth"
              [] c.op = "ping" -> "ping"
              [] c.op = "get_config" -> "get_config"
              [] c.op = "get_area_registry" -> "config/area_registry/list"
              [] c.op = "get_device_registry" -> "config/device_registry/list"
              [] c.op = "get_entity_registry" -> "config/entity_registry/list"
              [] c.op = "get_states" -> "get_states"
              [] c.op = "get_services" -> "get_services"
              [] c.op = "get_panels" -> "get_panels"
              [] c.op = "call_service" -> "call_service"
              [] c.op = "subscribe_event" -> "subscribe_events"
              [] c.op = "unsubscribe_event" -> "unsubscribe_events",
            c.id, c.subscription, c.event_type)

\* a call that has failed sends its command once more
Return_retry(c, out) ==
    IF c.enq = 1 /\ out.kind \notin {"Ok", "Panic", "Abandoned"}
    THEN /\ cur' = c
         /\ pc' = "send"
         /\ last' = last
    ELSE /\ last' = [c EXCEPT !.out = out]
         /\ cur' = NoCall
         /\ pc' = IF out.kind = "Panic" THEN "panicked" ELSE "idle"

\* The call returns out to the caller; a panic unwinds the caller's task.
Return(c, out) ==
    /\ last' = [c EXCEPT !.out = out]
    /\ cur' = NoCall
    /\ pc' = IF out.kind = "Panic" THEN "panicked" ELSE "idle"

\* let id = get_last_seq(&self.last_sequence).expect(..); build the command
StartWithId(op, subscription, event_type, follows, subs00) ==
    LET a == get_last_seq(last_sequence) IN
    /\ pc = "idle"
    /\ ncalls < MaxCalls
    /\ Len(to_gateway) <= MaxQueued
    /\ ncalls' = ncalls + 1
    /\ last_sequence' = a.counter
    /\ issued' = Append(issued, a.ret)
    /\ IF a.ret = None
       THEN Return(Call(op, None, subscription, event_type, follows, subs00),
                   Panic("could not read the Atomic value"))
       ELSE /\ cur' = Call(op, a.ret, subscription, event_type, follows, subs00)
            /\ pc' = "send"
            /\ last' = NoCall
    /\ UNCHANGED << subscriptions, to_gateway, from_gateway, stream,
                    transport, sink, writer, handshake >>
    /\ UNCHANGED wsvars

\* the three registries build their command with id: Some(0)
StartWithZero(op) ==
    /\ pc = "idle"
    /\ ncalls < MaxCalls
    /\ Len(to_gateway) <= MaxQueued
    /\ ncalls' = ncalls + 1
    /\ cur' = Call(op, 0, 0, "", FALSE, << >>)
    /\ pc' = "send"
    /\ last' = NoCall
    /\ UNCHANGED << last_sequence, subscriptions, to_gateway,
                    from_gateway, stream, transport, sink, writer,
                    issued, handshake >>
    /\ UNCHANGED wsvars

\* auth_with_longlivedtoken starts by awaiting ws_receive
auth_with_longlivedtoken ==
    /\ pc = "idle"
    /\ ncalls < MaxCalls
    /\ Len(to_gateway) <= MaxQueued
    /\ ncalls' = ncalls + 1
    /\ cur' = Call("auth_with_longlivedtoken", None, 0, "", FALSE, << >>)
    /\ pc' = "auth_recv"
    /\ last' = NoCall
    /\ handshake' = "AwaitAuthRequired"
    /\ UNCHANGED << last_sequence, subscriptions, to_gateway,
                    from_gateway, stream, transport, sink, writer,
                    issued >>
    /\ UNCHANGED wsvars

\* its first ws_receive: only an auth_required whose msg_type differs from
\* "auth_required" makes it return; everything else falls through to the send
auth_first_receive ==
    /\ pc = "auth_recv"
    /\ from_gateway # << >>
    /\ LET item == Head(from_gateway)
           r == ws_receive(item)
           c == [cur EXCEPT !.first = item]
       IN  /\ from_gateway' = Tail(from_gateway)
           /\ IF r.ok /\ r.resp.tag = "AuthRequired" /\ r.resp.msg_type # "auth_required"
              THEN /\ Return(c, HassError("Generic",
                        "Expecting the first message from server to be auth_required",
                        NoResponse))
                   /\ handshake' = "Failed"
              ELSE /\ cur' = c
                   /\ pc' = "send"
                   /\ last' = last
                   /\ handshake' = "SendAuthToken"
    /\ UNCHANGED << last_sequence, subscriptions, to_gateway, stream,
                    transport, sink, writer, issued, ncalls >>
    /\ UNCHANGED wsvars

ping ==
    /\ StartWithId("ping", 0, "", FALSE, << >>)
get_config ==
    /\ StartWithId("get_config", 0, "", FALSE, << >>)
get_area_registry ==
    /\ StartWithZero("get_area_registry")
get_device_registry ==
    /\ StartWithZero("get_device_registry")
get_entity_registry ==
    /\ StartWithZero("get_entity_registry")
get_states ==
    /\ StartWithId("get_states", 0, "", FALSE, << >>)
get_services ==
    /\ StartWithId("get_services", 0, "", FALSE, << >>)
get_panels ==
    /\ StartWithId("get_panels", 0, "", FALSE, << >>)
call_service ==
    /\ StartWithId("call_service", 0, "", FALSE, << >>)

subscribe_event ==
    /\ \E event_name \in EventNames :
        StartWithId("subscribe_event", 0, event_name, FALSE, << >>)

unsubscribe_event ==
    /\ \E subscription_id \in Handles :
        StartWithId("unsubscribe_event", subscription_id, "",
                    /\ last.op = "subscribe_event"
                    /\ last.out.kind = "Ok"
                    /\ last.out.data.id = subscription_id,
                    last.subs0)

\* What the operation makes of r, and the Subscription Table it leaves
ResultOf(c, r) ==
    CASE c.op = "auth_with_longlivedtoken" ->
            [out |-> auth_with_longlivedtoken_result(r), subs |-> subscriptions]
      [] c.op = "ping" -> [out |-> ping_result(r), subs |-> subscriptions]
      [] c.op = "get_config" -> [out |-> get_config_result(r), subs |-> subscriptions]
      [] c.op = "get_area_registry" ->
            [out |-> get_area_registry_result(r), subs |-> subscriptions]
      [] c.op = "get_device_registry" ->
            [out |-> get_device_registry_result(r), subs |-> subscriptions]
      [] c.op = "get_entity_registry" ->
            [out |-> get_entity_registry_result(r), subs |-> subscriptions]
      [] c.op = "get_states" -> [out |-> get_states_result(r), subs |-> subscriptions]
      [] c.op = "get_services" -> [out |-> get_services_result(r), subs |-> subscriptions]
      [] c.op = "get_panels" -> [out |-> get_panels_result(r), subs |-> subscriptions]
      [] c.op = "call_service" -> [out |-> call_service_result(r), subs |-> subscriptions]
      [] c.op = "subscribe_event" ->
            subscribe_event_result(r, subscriptions, c.event_type)
      [] c.op = "unsubscribe_event" ->
            unsubscribe_event_result(r, subscriptions, c.subscription)

HandshakeAfter(c, out) ==
    IF c.op # "auth_with_longlivedtoken" THEN handshake
    ELSE IF out.kind = "Ok" THEN "Authenticated" ELSE "Failed"

\* HassClient::command, first half: to_gateway.send(cmd_tungstenite).await.
\* The send fails once the receiving task is gone, and waits while the
\* channel is full.
command_send ==
    /\ pc = "send"
    /\ IF writer = "panicked"
       THEN LET res == ResultOf(cur, ErrResponse(HassError("SendError", "", NoResponse)))
            IN  /\ Return(cur, res.out)
                /\ subscriptions' = res.subs
                /\ handshake' = HandshakeAfter(cur, res.out)
                /\ UNCHANGED to_gateway
       ELSE /\ send_permit(to_gateway)
            /\ to_gateway' = Append(to_gateway, to_tungstenite_message(CommandOf(cur)))
            /\ cur' = [cur EXCEPT !.enq = @ + 1]
            /\ pc' = "recv"
            /\ UNCHANGED << last, subscriptions, handshake >>
    /\ UNCHANGED << last_sequence, from_gateway, stream, transport,
                    sink, writer, issued, ncalls >>
    /\ UNCHANGED wsvars

\* HassClient::command, second half: self.ws_receive().await, and the tail of
\* the operation that called it
command_receive ==
    /\ pc = "recv"
    /\ from_gateway # << >>
    /\ LET item == Head(from_gateway)
           c == [cur EXCEPT !.got = item]
           res == ResultOf(c, ws_receive(item))
       IN  /\ from_gateway' = Tail(from_gateway)
           /\ Return(c, res.out)
           /\ subscriptions' = res.subs
           /\ handshake' = HandshakeAfter(c, res.out)
    /\ UNCHANGED << last_sequence, to_gateway, stream, transport,
                    sink, writer, issued, ncalls >>
    /\ UNCHANGED wsvars

\* The caller drops the future of a request while it waits in ws_receive (a
\* timeout or a select around the call): the call ends there, its command
\* stays enqueued, and the client can be used again.
abandon ==
    /\ pc = "recv"
    /\ cur.op \in RequestOps
    /\ Return(cur, Abandoned)
    /\ UNCHANGED << last_sequence, subscriptions, to_gateway, from_gateway,
                    stream, transport, sink, writer, issued, handshake, ncalls >>
    /\ UNCHANGED wsvars

\* ------------------------------------------------------ the forwarding tasks
\* ws_incoming_messages: forward every item of the stream; at the end of the
\* stream the inner loop ends and the outer loop polls the stream again
ws_incoming_messages ==
    /\ IF stream # << >>
       THEN /\ send_permit(from_gateway)
            /\ from_gateway' = to_user_send(from_gateway, Head(stream))
            /\ stream' = Tail(stream)
       ELSE /\ transport # "open"
            /\ UNCHANGED << from_gateway, stream >>
    /\ UNCHANGED << last_sequence, subscriptions, to_gateway, transport,
                    sink, writer, pc, cur, last, issued, handshake, ncalls >>
    /\ UNCHANGED wsvars

\* ws_outgoing_messages: write every message of the channel; a failed write
\* (expect) and a closed channel (todo!) both panic, which drops the receiver
ws_outgoing_messages ==
    /\ writer = "running"
    /\ IF to_gateway # << >>
       THEN IF transport = "open"
            THEN /\ sink' = sink + 1
                 /\ to_gateway' = recv(to_gateway).rest
                 /\ UNCHANGED writer
            ELSE /\ writer' = "panicked"
                 /\ to_gateway' = << >>
                 /\ UNCHANGED sink
       ELSE /\ pc = "panicked"
            /\ writer' = "panicked"
            /\ UNCHANGED << sink, to_gateway >>
    /\ UNCHANGED << last_sequence, subscriptions, from_gateway, stream,
                    transport, pc, cur, last, issued, handshake, ncalls >>
    /\ UNCHANGED wsvars

\* ------------------------------------------------------------- the gateway
InFlight == Len(stream) + Len(from_gateway)

\* a facade call is waiting, or can still be started, to take what arrives
Awaited == pc \in {"auth_recv", "send", "recv"} \/ (pc = "idle" /\ ncalls < MaxCalls)

gateway_send ==
    /\ transport = "open"
    /\ Awaited
    /\ InFlight < MaxInFlight
    /\ \E item \in GatewayItems : stream' = Append(stream, item)
    /\ UNCHANGED << last_sequence, subscriptions, to_gateway,
                    from_gateway, transport, sink, writer, pc, cur,
                    last, issued, handshake, ncalls >>
    /\ UNCHANGED wsvars

transport_error ==
    /\ transport = "open"
    /\ Awaited
    /\ InFlight < MaxInFlight
    /\ \E e \in TransportErrors : stream' = Append(stream, ErrItem(e))
    /\ transport' = "failed"
    /\ UNCHANGED << last_sequence, subscriptions, to_gateway,
                    from_gateway, sink, writer, pc, cur, last, issued,
                    handshake, ncalls >>
    /\ UNCHANGED wsvars

transport_close ==
    /\ transport = "open"
    /\ Awaited
    /\ transport' = "closed"
    /\ UNCHANGED << last_sequence, subscriptions, to_gateway,
                    from_gateway, stream, sink, writer, pc, cur, last,
                    issued, handshake, ncalls >>
    /\ UNCHANGED wsvars

\* ------------------------------------------------------- the specification
\* HassClient::new, the two channels and the two spawned tasks
Init ==
    /\ last_sequence = 1
    /\ subscriptions = << >>
    /\ to_gateway = << >>
    /\ from_gateway = << >>
    /\ stream = << >>
    /\ transport = "open"
    /\ sink = 0
    /\ writer = "running"
    /\ pc = "idle"
    /\ cur = NoCall
    /\ last = NoCall
    /\ issued = << >>
    /\ handshake = "AwaitAuthRequired"
    /\ ncalls = 0
    /\ conn = "none"
    /\ sender_task = "none"
    /\ receiver_task = "none"
    /\ event_listeners = {}
    /\ called = << >>
    /\ stream_ended = FALSE
    /\ nframes = 0
    /\ wire = NoFrame

Next ==
    \/ auth_with_longlivedtoken
    \/ auth_first_receive
    \/ ping
    \/ get_config
    \/ get_area_registry
    \/ get_device_registry
    \/ get_entity_registry
    \/ get_states
    \/ get_services
    \/ get_panels
    \/ call_service
    \/ subscribe_event
    \/ unsubscribe_event
    \/ command_send
    \/ command_receive
    \/ abandon
    \/ ws_incoming_messages
    \/ ws_outgoing_messages
    \/ gateway_send
    \/ transport_error
    \/ transport_close

Spec == Init /\ [][Next]_vars

\* ======================================================== src/src/wsconn.rs
\*   holder -> WsConn.to_gateway -> sender_loop -> sink
\*   gateway -> stream -> receiver_loop -> WsConn.from_gateway -> holder
\*                                      \-> event_listeners (closures)

\* --------------------------------------------------------------- bounds
\* commands the holder of a WsConn sends in one behaviour
MaxCommands == 21
\* commands at the start of a behaviour that are any command; after them
\* the holder sends pings
MaxVaried == 2
\* items the gateway puts on the stream of a WsConn in one behaviour
MaxFrames == 2

\* --------------------------------------------------------------- inputs
\* the commands the holder builds carry Some(0), as the registry commands of
\* client.rs do; Close and the auth command have no id field
PingCommand == Command("ping", 0, 0, "")

ConnCommands ==
    { Command("Close", None, 0, ""), Command("auth", None, 0, ""),
      PingCommand, Command("subscribe_events", 0, 0, "state_changed") }

\* the auth command given an id like any other
assigns_id_also_auth(cmd) == cmd.msg_type # "Close"

\* the arms of sender_loop that set the command's id from get_last_seq: all
\* but Command::Close and Command::AuthInit
assigns_id(cmd) == cmd.msg_type \notin {"Close", "auth"}

\* a loop that goes on after it has written Close
sender_returns_on_error_only(item, written) == ~written

\* the turns of sender_loop that end the task: the return of the Close arm,
\* whatever the write gave, and the return Err(..) of a failed write
sender_returns(item, written) == item.msg_type = "Close" \/ ~written

\* TungsteniteMessage::Close(None)
CloseFrame == to_tungstenite_message(Command("Close", None, 0, ""))

ConnItems ==
    { TextItem(j) : j \in { t \in GatewayTexts :
                              \/ t.type \in {"event", "pong", "not_a_response"}
                              \/ t.type = "result" /\ t.success /\ t.id = 1
                                    /\ t.result = "config" } }
    \cup { BinaryItem }

ListenerIds == {1}

\* to_client.send(r).await in receiver_loop: Err once the holder has dropped
\* the receiving half, else the channel with r appended
to_client_send(r) ==
    IF conn = "dropped"
    THEN [ok |-> FALSE, queue |-> from_gateway]
    ELSE [ok |-> TRUE, queue |-> Append(from_gateway, r)]

\* -------------------------------------------------------------- the holder
\* conn.to_gateway.send(cmd).await
conn_send ==
    /\ conn = "held"
    /\ sender_task = "running"
    /\ sink + Len(to_gateway) < MaxCommands
    /\ send_permit(to_gateway)
    /\ \E cmd \in IF sink + Len(to_gateway) < MaxVaried THEN ConnCommands ELSE {PingCommand} :
            to_gateway' = Append(to_gateway, cmd)
    /\ UNCHANGED << last_sequence, from_gateway, stream, transport, sink, issued >>
    /\ UNCHANGED clientvars
    /\ UNCHANGED wsvars

\* conn.from_gateway.recv().await
conn_recv ==
    /\ conn = "held"
    /\ from_gateway # << >>
    /\ from_gateway' = Tail(from_gateway)
    /\ UNCHANGED << last_sequence, to_gateway, stream, transport, sink, issued >>
    /\ UNCHANGED clientvars
    /\ UNCHANGED wsvars

\* conn.event_listeners.lock().await.insert(id, closure)
insert_listener ==
    /\ conn = "held"
    /\ \E id \in ListenerIds :
        /\ id \notin event_listeners
        /\ event_listeners' = event_listeners \cup {id}
    /\ UNCHANGED << last_sequence, to_gateway, from_gateway, stream, transport,
                    sink, issued >>
    /\ UNCHANGED clientvars
    /\ UNCHANGED << conn, sender_task, receiver_task, called, stream_ended, nframes,
                    wire >>

\* the WsConn is dropped: the sending half of to_gateway and the receiving
\* half of from_gateway go with it, and what from_gateway held is lost
conn_drop ==
    /\ conn = "held"
    /\ conn' = "dropped"
    /\ from_gateway' = << >>
    /\ UNCHANGED << last_sequence, to_gateway, stream, transport, sink, issued >>
    /\ UNCHANGED clientvars
    /\ UNCHANGED << sender_task, receiver_task, event_listeners, called,
                    stream_ended, nframes, wire >>

\* ------------------------------------------------------------- sender_loop
\* One turn of the loop on the command from_client.recv() yields. Close is
\* written and the task returns; the auth command is written as it is; every
\* other command is given get_last_seq's id and written. A failed write
\* returns Err from the task. A task that has returned drops from_client, and
\* with it what the channel still held. On a closed and empty channel recv()
\* yields None and the loop turns again, changing nothing.
sender_loop ==
    /\ sender_task = "running"
    /\ to_gateway # << >>
    /\ LET item == recv(to_gateway).item
           a == get_last_seq(last_sequence)
           with_id == assigns_id(item)
           cmd == IF item.msg_type = "Close" THEN CloseFrame
                  ELSE to_tungstenite_message(
                           [item EXCEPT !.id = IF with_id THEN a.ret ELSE @])
           written == transport = "open"
       IN  /\ last_sequence' = IF with_id THEN a.counter ELSE last_sequence
           /\ issued' = IF with_id THEN Append(issued, a.ret) ELSE issued
           /\ sink' = IF written THEN sink + 1 ELSE sink
           /\ wire' = IF written THEN cmd ELSE wire
           /\ IF sender_returns(item, written)
              THEN /\ sender_task' = "stopped"
                   /\ to_gateway' = << >>
              ELSE /\ sender_task' = sender_task
                   /\ to_gateway' = recv(to_gateway).rest
    /\ UNCHANGED << from_gateway, stream, transport >>
    /\ UNCHANGED clientvars
    /\ UNCHANGED << conn, receiver_task, event_listeners, called, stream_ended,
                    nframes >>

\* ----------------------------------------------------------- receiver_loop
\* One turn of the loop on what stream.next() yields.
\*   Text, not decodable: Err(UnknownPayloadReceived) to the holder, unwrap
\*   Text, an event: the closure registered under event.id, or todo!()
\*   Text, any other response: Ok(value) to the holder, unwrap
\*   another message: nothing
\*   Some(Err(e)): Err(HassError::from(&e)) to the holder, a failed send ignored
\*   None: nothing, and the loop turns again
receiver_loop ==
    /\ receiver_task = "running"
    /\ IF stream = << >>
       THEN /\ transport # "open"
            /\ stream_ended' = TRUE
            /\ UNCHANGED << stream, from_gateway, receiver_task, called >>
       ELSE LET item == Head(stream)
                payload == from_str(item.data)
                forwarded ==
                    IF item.tag = "Err" THEN ErrResponse(FromTungsteniteRef(item.err))
                    ELSE IF payload.ok THEN OkResponse(payload.resp)
                    ELSE ErrResponse(UnknownPayloadReceived)
                to_holder == item.tag = "Err"
                             \/ (item.tag = "Text" /\ ~(payload.ok /\ payload.resp.tag = "Event"))
                is_event == item.tag = "Text" /\ payload.ok /\ payload.resp.tag = "Event"
            IN  /\ stream' = Tail(stream)
                /\ stream_ended' = (stream_ended \/ item.tag = "Err")
                /\ to_holder /\ to_client_send(forwarded).ok => send_permit(from_gateway)
                /\ from_gateway' = IF to_holder /\ to_client_send(forwarded).ok
                                   THEN to_client_send(forwarded).queue
                                   ELSE from_gateway
                /\ called' = IF is_event /\ payload.resp.id \in event_listeners
                             THEN Append(called, payload.resp.id)
                             ELSE called
                /\ receiver_task' =
                        IF is_event /\ payload.resp.id \notin event_listeners
                        THEN "panicked"
                        ELSE IF item.tag = "Text" /\ to_holder
                                /\ ~to_client_send(forwarded).ok
                        THEN "panicked"
                        ELSE receiver_task
    /\ UNCHANGED << last_sequence, to_gateway, transport, sink, issued >>
    /\ UNCHANGED clientvars
    /\ UNCHANGED << conn, sender_task, event_listeners, nframes, wire >>

\* ------------------------------------------------ the gateway of a WsConn
wsconn_gateway_send ==
    /\ transport = "open"
    /\ nframes < MaxFrames
    /\ InFlight < MaxInFlight
    /\ \E item \in ConnItems : stream' = Append(stream, item)
    /\ nframes' = nframes + 1
    /\ UNCHANGED << last_sequence, to_gateway, from_gateway, transport, sink, issued >>
    /\ UNCHANGED clientvars
    /\ UNCHANGED << conn, sender_task, receiver_task, event_listeners, called,
                    stream_ended, wire >>

wsconn_transport_error ==
    /\ transport = "open"
    /\ nframes < MaxFrames
    /\ InFlight < MaxInFlight
    /\ \E e \in TransportErrors : stream' = Append(stream, ErrItem(e))
    /\ transport' = "failed"
    /\ nframes' = nframes + 1
    /\ UNCHANGED << last_sequence, to_gateway, from_gateway, sink, issued >>
    /\ UNCHANGED clientvars
    /\ UNCHANGED << conn, sender_task, receiver_task, event_listeners, called,
                    stream_ended, wire >>

wsconn_transport_close ==
    /\ transport = "open"
    /\ transport' = "closed"
    /\ UNCHANGED << last_sequence, to_gateway, from_gateway, stream, sink, issued >>
    /\ UNCHANGED clientvars
    /\ UNCHANGED wsvars

\* WsConn::connect: the two channels, the counter, the empty table and the
\* two spawned tasks
WsConnInit ==
    /\ last_sequence = 1
    /\ to_gateway = << >>
    /\ from_gateway = << >>
    /\ stream = << >>
    /\ transport = "open"
    /\ sink = 0
    /\ issued = << >>
    /\ conn = "held"
    /\ sender_task = "running"
    /\ receiver_task = "running"
    /\ event_listeners = {}
    /\ called = << >>
    /\ stream_ended = FALSE
    /\ nframes = 0
    /\ wire = NoFrame
    /\ subscriptions = << >>
    /\ writer = "none"
    /\ pc = "none"
    /\ cur = NoCall
    /\ last = NoCall
    /\ handshake = "AwaitAuthRequired"
    /\ ncalls = 0

WsConnNext ==
    \/ conn_send
    \/ conn_recv
    \/ insert_listener
    \/ conn_drop
    \/ sender_loop
    \/ receiver_loop
    \/ wsconn_gateway_send
    \/ wsconn_transport_error
    \/ wsconn_transport_close

WsConnSpec == WsConnInit /\ [][WsConnNext]_vars

\* ------------------------------------------------ get_last_seq, on its own
\* fetch_add(1) applied to counters a client can hold: the counter of a fresh
\* client and the counters of the last allocations before the 64-bit wrap
MaxAlloc == 4
SeqWindow == 24

\* AtomicU64::new(1), or a counter that many allocations have brought near the wrap
SeqStarts == {1} \cup { U64_MAX - k : k \in 0 .. SeqWindow }

\* one call of get_last_seq(&last_sequence)
allocate ==
    LET a == get_last_seq(last_sequence) IN
    /\ Len(issued) < MaxAlloc
    /\ last_sequence' = a.counter
    /\ issued' = Append(issued, a.ret)
    /\ UNCHANGED << to_gateway, from_gateway, stream, transport, sink >>
    /\ UNCHANGED clientvars
    /\ UNCHANGED wsvars

SeqInit ==
    /\ last_sequence \in SeqStarts
    /\ subscriptions = << >>
    /\ to_gateway = << >>
    /\ from_gateway = << >>
    /\ stream = << >>
    /\ transport = "open"
    /\ sink = 0
    /\ writer = "none"
    /\ pc = "idle"
    /\ cur = NoCall
    /\ last = NoCall
    /\ issued = << >>
    /\ handshake = "AwaitAuthRequired"
    /\ ncalls = 0
    /\ conn = "none"
    /\ sender_task = "none"
    /\ receiver_task = "none"
    /\ event_listeners = {}
    /\ called = << >>
    /\ stream_ended = FALSE
    /\ nframes = 0
    /\ wire = NoFrame

SeqNext ==
    \/ allocate

SeqSpec == SeqInit /\ [][SeqNext]_vars

\* ================================================================ claims
IsText(item, type) == item.tag = "Text" /\ item.data.type = type

\* the call that has just returned took a decodable response from the channel
GotResponse == last.got # NoItem /\ ws_receive(last.got).ok
Got == ws_receive(last.got).resp

\* C1: the response a facade call is given is the inbound frame that carries
\* the id of that call's command; it is never an event frame and never a
\* frame with another id.
C1_ResponseCarriesCallId ==
    (last.op \in RequestOps /\ GotResponse /\ Got.tag \in {"Result", "Pong", "Event"})
        => (Got.tag # "Event" /\ Got.id = last.id)

\* C2: every identifier get_last_seq returns is strictly greater than every
\* identifier it returned before.
C2_IdsStrictlyIncrease ==
    \A i, j \in DOMAIN issued : i < j => issued[i] < issued[j]

C2_Witness == Len(issued) >= 3

\* C3: a caller whose request is outstanding when the transport fails is
\* given a connection-level failure (ConnectionClosed or a Tungstenite error)
\* and no other kind of error.
C3_TransportFailureReachesCaller ==
    (last.op \in RequestOps /\ last.got.tag = "Err")
        => last.out.kind \in {"ConnectionClosed", "TungsteniteError"}

\* C4: when the handshake reads auth_required and then auth_invalid with
\* message m, auth_with_longlivedtoken returns AuthenticationFailed(m), and
\* the auth frame is the only and the last frame the call has enqueued.
C4_AuthInvalidFails ==
    ( /\ last.op = "auth_with_longlivedtoken"
      /\ IsText(last.first, "auth_required")
      /\ IsText(last.got, "auth_invalid") )
        => /\ last.out = HassError("AuthenticationFailed", last.got.data.message,
                                   NoResponse)
           /\ last.enq = 1
           /\ to_gateway # << >> => to_gateway[Len(to_gateway)].type = "auth"

C4_Witness ==
    /\ last.op = "auth_with_longlivedtoken"
    /\ IsText(last.first, "auth_required")
    /\ IsText(last.got, "auth_invalid")
    /\ last.got.data.message = "bad token"
    /\ last.out.kind = "AuthenticationFailed"

\* C5: a first inbound message other than auth_required makes the handshake
\* fail without the auth frame being sent, and a second inbound message other
\* than auth_ok or auth_invalid makes it fail.
C5_ProtocolViolationFailsAuth ==
    last.op = "auth_with_longlivedtoken"
        => /\ ~IsText(last.first, "auth_required")
                => (last.out.kind # "Ok" /\ last.enq = 0)
           /\ (last.got # NoItem /\ ~IsText(last.got, "auth_ok"))
                => last.out.kind # "Ok"

\* C6: the only frame enqueued before the handshake has reached Authenticated
\* is the auth frame of the handshake itself, and nothing is enqueued after a
\* failed handshake.
C6_NoCommandBeforeAuthenticated ==
    [][ Len(to_gateway') > Len(to_gateway)
          => \/ /\ to_gateway'[Len(to_gateway')].type = "auth"
                /\ handshake = "SendAuthToken"
             \/ /\ to_gateway'[Len(to_gateway')].type # "auth"
                /\ handshake = "Authenticated" ]_vars

\* C7: an acknowledged subscribe followed at once by an acknowledged
\* unsubscribe of the handle it returned succeeds and leaves the Subscription
\* Table as it was before the subscribe.
C7_SubscribeThenUnsubscribeRestores ==
    ( /\ last.op = "unsubscribe_event"
      /\ last.follows
      /\ GotResponse /\ Got.tag = "Result" /\ Got.success )
        => (last.out.kind = "Ok" /\ subscriptions = last.subs00)

\* C8: unsubscribe with a handle that is no key of the Subscription Table
\* returns the unknown-subscription error whatever the gateway answers, and
\* leaves the table unchanged.
C8_UnknownHandleIsDistinctError ==
    ( /\ last.op = "unsubscribe_event"
      /\ last.subscription \notin DOMAIN last.subs0
      /\ last.got # NoItem )
        => /\ last.out = HassError("Generic", "Wrong subscription ID", NoResponse)
           /\ subscriptions = last.subs0

\* C9: a result with success = false makes every request operation fail with
\* ReponseError carrying the code and message of that result; call_service
\* does not report the command as executed.
C9_FailedResultIsResponseError ==
    ( /\ last.op \in RequestOps
      /\ IsText(last.got, "result")
      /\ ~last.got.data.success )
        => /\ last.out.kind = "ReponseError"
           /\ last.out.data.error = last.got.data.error

C9_Witness ==
    /\ last.op = "call_service"
    /\ IsText(last.got, "result")
    /\ last.got.data.error.code = "not_found"
    /\ last.out.kind = "ReponseError"

\* the tag each request operation expects
ExpectedTag(op) == IF op = "ping" THEN "Pong" ELSE "Result"

\* C10: a decodable response whose tag is not the one the operation expects
\* (a failed result apart, which is a gateway error) yields
\* UnknownPayloadReceived, and ReponseError is returned only for a result with
\* success = false.
C10_WrongTagIsUnknownPayload ==
    (last.op \in RequestOps /\ GotResponse)
        => /\ (Got.tag # ExpectedTag(last.op) /\ ~(Got.tag = "Result" /\ ~Got.success))
                => last.out = UnknownPayloadReceived
           /\ last.out.kind = "ReponseError" => (Got.tag = "Result" /\ ~Got.success)

\* the request operations that take their id from get_last_seq
AllocatingOps ==
    RequestOps \ {"get_area_registry", "get_device_registry", "get_entity_registry"}

\* C11: a request is resolved only by the response that carries its own id:
\* whenever a request operation returns a success or a gateway error, the
\* frame that decided it carries the id of that request's command, so a
\* response delivered for id N never decides the outcome of a request M # N.
C11_OutcomeDecidedByOwnResponse ==
    ( /\ last.op \in AllocatingOps
      /\ last.out.kind \in {"Ok", "ReponseError"}
      /\ GotResponse )
        => Got.id = last.id

\* C12: the command of every request operation carries the identifier that
\* get_last_seq has just handed out; it is never 0 and never an identifier
\* that was not allocated for it.
C12_CommandCarriesFreshId ==
    (pc \in {"send", "recv"} /\ cur.op \in RequestOps)
        => /\ cur.id # 0
           /\ issued # << >>
           /\ cur.id = issued[Len(issued)]

\* C15: a facade call that is blocked on its receive after the connection has
\* failed can still return: something is on its way to it (an item of the
\* stream or of from_gateway). Where nothing is, the call never returns.
C15_BlockedCallCanStillReturn ==
    (pc \in {"auth_recv", "recv"} /\ transport # "open") => InFlight > 0

\* C16: an event frame whose id is a key of the Subscription Table is never
\* what a facade call is given as the answer to its command.
C16_SubscribedEventNotGivenToCaller ==
    ~ ( /\ last.op \in RequestOps
        /\ IsText(last.got, "event")
        /\ last.got.data.id \in DOMAIN last.subs0 )

\* C18: a response whose id is the id of an earlier command (already
\* resolved, so matching no pending request) is not given to the caller of a
\* later command.
C18_StaleResponseNotGivenToLaterCaller ==
    ( /\ last.op \in AllocatingOps
      /\ GotResponse
      /\ Got.tag \in {"Result", "Pong"} )
        => ~ (Got.id < last.id)

\* C20: when a write has failed and ws_outgoing_messages has stopped, the
\* request that is outstanding is given a failure: while its caller waits,
\* something is on its way to it.
C20_WriteFailureReachesOutstandingRequest ==
    (writer = "panicked" /\ pc = "recv" /\ cur.enq > 0) => InFlight > 0

\* an event frame at the head of the stream whose id is no key of event_listeners
UnknownEventAtHead ==
    /\ stream # << >>
    /\ IsText(Head(stream), "event")
    /\ Head(stream).data.id \notin event_listeners

\* C13: once one of the two loops of a WsConn has stopped and nothing can reach
\* the other any more, the other has stopped too: with the sender stopped,
\* the transport closed or failed and the stream read to its end, the
\* receiver is not running; with the receiver stopped, the WsConn dropped and
\* the outbound queue empty, the sender is not running.
C13_StoppedLoopStopsTheOther ==
    /\ ( /\ sender_task = "stopped"
         /\ transport # "open" /\ stream = << >> /\ stream_ended )
            => receiver_task # "running"
    /\ ( /\ receiver_task = "panicked"
         /\ conn = "dropped" /\ to_gateway = << >> )
            => sender_task # "running"

\* C14: the outbound queue never holds more than ChannelCap commands; while
\* it is full nothing is enqueued, so the sender waits until the Writer Loop
\* has taken a command; and the queue loses no command to its being full:
\* while the Writer Loop runs, the queue changes only by a command appended at
\* its tail or by its head taken and written by the Writer Loop.
C14_OutboundQueueBoundedAndBlocking ==
    [][ /\ Len(to_gateway') <= ChannelCap
        /\ Len(to_gateway) = ChannelCap => Len(to_gateway') <= Len(to_gateway)
        /\ (to_gateway' # to_gateway /\ sender_task' = "running")
              => \/ /\ Len(to_gateway') = Len(to_gateway) + 1
                    /\ SubSeq(to_gateway', 1, Len(to_gateway)) = to_gateway
                 \/ /\ to_gateway' = Tail(to_gateway)
                    /\ sink' = sink + 1 ]_vars

\* the queue is full, and it is the capacity and not the bound on commands
\* that keeps the holder's next send waiting
C14_Witness ==
    /\ Len(to_gateway) = ChannelCap
    /\ conn = "held"
    /\ sender_task = "running"
    /\ sink + Len(to_gateway) < MaxCommands

\* C17: when the Reader Loop reads an event frame whose id is no key of the
\* table, it drops the frame (nothing goes to a closure or to the holder) and
\* it is still running afterwards.
C17_UnknownEventIsDropped ==
    [][ (receiver_task = "running" /\ UnknownEventAtHead /\ stream' = Tail(stream))
            => /\ receiver_task' = "running"
               /\ from_gateway' = from_gateway
               /\ called' = called ]_vars

\* C19: once the Reader Loop has read the end of the stream or a transport
\* error, it is stopped.
C19_ReaderStopsAtEndOfStream ==
    stream_ended => receiver_task # "running"

\* the frame is the command, its id apart
FrameOfCommand(frame, cmd) ==
    /\ frame.type = cmd.msg_type
    /\ frame.subscription = cmd.subscription
    /\ frame.event_type = cmd.event_type

\* C21: every frame sender_loop writes is the command at the head of the
\* outbound queue, written once as it is taken; and while the loop runs, a
\* command leaves the queue only from its head and only by being written.
C21_WritesQueueInOrder ==
    [][ /\ sink' # sink
            => /\ to_gateway # << >>
               /\ sink' = sink + 1
               /\ FrameOfCommand(wire', Head(to_gateway))
               /\ sender_task' = "running" => to_gateway' = Tail(to_gateway)
        /\ (sender_task' = "running" /\ Len(to_gateway') < Len(to_gateway))
            => /\ to_gateway' = Tail(to_gateway)
               /\ sink' = sink + 1 ]_vars

\* the loop has written the command at the head while others wait behind it
C21_Witness ==
    /\ sender_task = "running"
    /\ sink = 2
    /\ wire.type = "subscribe_events"
    /\ Len(to_gateway) >= 2

\* an undecodable text frame at the head of the stream
UndecodableAtHead ==
    /\ stream # << >>
    /\ Head(stream).tag = "Text"
    /\ ~from_str(Head(stream).data).ok

\* C22: when the Reader Loop reads a text frame that does not deserialize, it
\* hands the holder the error UnableToDeserialize, which is not the error of
\* an unexpected payload, and it is still running afterwards.
C22_UndecodableFrameIsDeserializeError ==
    [][ ( /\ receiver_task = "running" /\ conn = "held"
          /\ UndecodableAtHead /\ stream' = Tail(stream) )
            => /\ from_gateway' =
                    Append(from_gateway,
                           ErrResponse(HassError("UnableToDeserialize", "", NoResponse)))
               /\ from_gateway'[Len(from_gateway')].err # UnknownPayloadReceived
               /\ receiver_task' = "running" ]_vars

\* C23: sender_loop gives every command it takes, the auth command and Close
\* apart, the identifier get_last_seq returns at that moment, whatever id the
\* command carried; the auth frame goes out without an id and leaves the
\* counter as it was.
C23_WriterAssignsIds ==
    [][ (sender_task = "running" /\ to_gateway # << >> /\ to_gateway' # to_gateway
            /\ Len(to_gateway') < Len(to_gateway))
            => LET item == Head(to_gateway) IN
               /\ item.msg_type \notin {"Close", "auth"}
                    => /\ last_sequence' = get_last_seq(last_sequence).counter
                       /\ issued' = Append(issued, get_last_seq(last_sequence).ret)
                       /\ sink' # sink => wire'.id = get_last_seq(last_sequence).ret
               /\ item.msg_type \in {"Close", "auth"}
                    => /\ last_sequence' = last_sequence
                       /\ issued' = issued
                       /\ sink' # sink => wire'.id = None ]_vars

\* an auth frame went out without an id, and the ping after it, enqueued
\* with id 0, went out with the first identifier of the counter
C23_Witness ==
    /\ sink = 2
    /\ issued = << 1 >>
    /\ last_sequence = 2
    /\ wire.type = "ping"
    /\ wire.id = 1

\* C24: the Subscription Table grows only by the id of a result with
\* success = true that a subscribe call received, and it is empty once the
\* client has been handed the failure of the transport.
C24_TableHoldsLiveSubscriptionsOnly ==
    /\ (last.op # "" /\ DOMAIN subscriptions \ DOMAIN last.subs0 # {})
            => /\ last.op = "subscribe_event"
               /\ GotResponse /\ Got.tag = "Result" /\ Got.success
               /\ DOMAIN subscriptions \ DOMAIN last.subs0 = {Got.id}
    /\ last.got.tag = "Err" => subscriptions = << >>

\* C25: nothing that arrives is lost on its way to the caller, whether or not
\* the caller is already receiving: ws_incoming_messages puts every item of the
\* stream on from_gateway, and an item leaves from_gateway only as the oldest
\* one, taken by the receive of the call in progress.
C25_ArrivalBeforeAwaitIsKept ==
    [][ /\ (stream # << >> /\ stream' = Tail(stream))
            => from_gateway' = Append(from_gateway, Head(stream))
        /\ (from_gateway # << >> /\ Len(from_gateway') < Len(from_gateway))
            => /\ from_gateway' = Tail(from_gateway)
               /\ pc \in {"recv", "auth_recv"}
               /\ pc = "recv" => last'.got = Head(from_gateway)
               /\ pc = "auth_recv" => Head(from_gateway) \in {cur'.first, last'.first} ]_vars

\* the answer to the command of the call in progress is on from_gateway
\* before the call has received
C25_Witness ==
    /\ pc = "recv"
    /\ cur.op = "ping"
    /\ sink = 1
    /\ from_gateway # << >>
    /\ IsText(Head(from_gateway), "pong")
    /\ Head(from_gateway).data.id = cur.id

\* C26: after a call was abandoned with its command enqueued, the response
\* that carries the id of that command is not given to the caller of the
\* next command.
C26_LateResponseOfAbandonedCall ==
    ( /\ last.before.abandoned
      /\ GotResponse
      /\ Got.tag \in {"Result", "Pong"} )
        => Got.id # last.before.id

\* C27: a facade call enqueues at most one frame, and exactly one when it
\* went on to receive, whatever it received; the frames written and queued
\* never outnumber the calls.
C27_OneFramePerCall ==
    /\ cur.enq <= 1
    /\ last.enq <= 1
    /\ last.got # NoItem => last.enq = 1
    /\ sink + Len(to_gateway) <= ncalls

\* a call that was answered with a gateway error has enqueued one frame
C27_Witness ==
    /\ last.op = "get_config"
    /\ last.out.kind = "ReponseError"
    /\ last.enq = 1
    /\ ncalls = 1
    /\ sink = 1

\* C28: the key a subscribe call adds to the Subscription Table is not the id
\* of the command of the call before it, unless that was a subscribe command
\* too: with a gateway that answers every command once with its id, and an
\* event of a live subscription delivered in between.
C28_KeysAreSubscribeIds ==
    ( /\ last.op = "subscribe_event"
      /\ last.out.kind = "Ok"
      /\ last.before.id # None
      /\ ~last.before.abandoned
      /\ Got.id = last.before.id )
        => last.before.subscribe

\* C29: no facade call panics and ws_outgoing_messages does not panic.
C29_NothingPanics ==
    /\ pc # "panicked"
    /\ last.out.kind # "Panic"
    /\ writer # "panicked"

\* C30: a subscribe or unsubscribe call that returned an error value has left
\* the Subscription Table as it was when the call started.
C30_FailedCallLeavesTable ==
    ( /\ last.op \in {"subscribe_event", "unsubscribe_event"}
      /\ last.out.kind \notin {"", "Ok", "Panic", "Abandoned"} )
        => subscriptions = last.subs0

\* a subscribe answered with a gateway error, on a table that held a key
C30_Witness ==
    /\ last.op = "subscribe_event"
    /\ last.out.kind = "ReponseError"
    /\ last.subs0 # << >>
    /\ subscriptions = last.subs0

\* C31: on a fresh client the first identifier allocated is 1; each further
\* allocation returns the identifier before it plus 1; get_last_seq returns
\* None exactly when the counter it reads is 0, and the counter is 0 only
\* right after U64_MAX was handed out (the wrap-around).
C31_ContiguousFromOneNoneOnlyAtWrap ==
    [][ issued' # issued =>
          LET prev == IF issued = << >> THEN None ELSE issued[Len(issued)]
              ret == issued'[Len(issued')]
          IN /\ (issued = << >> /\ last_sequence = 1) => ret = 1
             /\ (prev # None /\ ret # None) => ret = prev + 1
             /\ (ret = None) <=> (last_sequence = 0)
             /\ (last_sequence = 0) => prev = U64_MAX ]_vars

\* the counter has wrapped and an identifier was allocated after that
C31_Witness ==
    \E i \in DOMAIN issued :
        /\ issued[i] = None
        /\ i > 1 /\ issued[i - 1] = U64_MAX
        /\ i < Len(issued) /\ issued[i + 1] = 1

\* C32: the turn of sender_loop that takes Command::Close writes one Close
\* frame, ends the task, and leaves the counter as it was; what was enqueued
\* behind Close is dropped with the channel, and once the task has ended
\* nothing more is written to the transport.
C32_CloseStopsTheWriter ==
    [][ /\ ( /\ sender_task = "running" /\ to_gateway # << >>
             /\ Head(to_gateway).msg_type = "Close"
             /\ Len(to_gateway') < Len(to_gateway) )
            => /\ sender_task' = "stopped"
               /\ to_gateway' = << >>
               /\ sink' <= sink + 1
               /\ transport = "open" => (sink' = sink + 1 /\ wire' = CloseFrame)
               /\ last_sequence' = last_sequence
               /\ issued' = issued
        /\ sender_task = "stopped"
            => /\ sender_task' = "stopped"
               /\ sink' = sink
               /\ wire' = wire
               /\ to_gateway' = << >> ]_vars

\* a ping went out with identifier 1, then Close went out and ended the task
\* without taking an identifier
C32_Witness ==
    /\ sender_task = "stopped"
    /\ wire = CloseFrame
    /\ sink = 2
    /\ issued = << 1 >>
    /\ last_sequence = 2
    /\ to_gateway = << >>

\* a text frame that is not an event
NonEventText(item) ==
    item.tag = "Text" /\ ~(from_str(item.data).ok /\ from_str(item.data).resp.tag = "Event")

\* C33: while the holder keeps the connection, the turn of receiver_loop on a
\* text frame that is not an event appends one item for it to the response
\* channel, behind what the channel holds, and only when the channel has
\* room; and a text frame that is not an event and waits on the stream has a
\* running Reader Loop to forward it.
C33_EveryTextFrameIsForwarded ==
    [][ /\ ( /\ conn = "held" /\ receiver_task = "running"
             /\ stream # << >> /\ NonEventText(Head(stream))
             /\ stream' = Tail(stream) )
            => /\ Len(from_gateway) < ChannelCap
               /\ Len(from_gateway') = Len(from_gateway) + 1
               /\ SubSeq(from_gateway', 1, Len(from_gateway)) = from_gateway
               /\ from_str(Head(stream).data).ok
                    => from_gateway'[Len(from_gateway')]
                            = OkResponse(from_str(Head(stream).data).resp)
               /\ receiver_task' = "running"
        /\ ( /\ conn' = "held"
             /\ \E k \in DOMAIN stream' : NonEventText(stream'[k]) )
            => receiver_task' = "running" ]_vars

\* C34: a frame that is not a text frame is never what a facade call was
\* given as the answer it awaited: no call returns on such a frame.
C34_NonTextFrameIsIgnored ==
    (last # NoCall /\ last.got # NoItem) => last.got.tag # "Binary"

====
